---- MODULE Spec2Model ----
(***************************************************************************)
(* Model of the host-side scripts of the Amplified Mouse (Pi Pico) project: *)
(*   scripts/host_send_mice.py  - the aggregator loop and telemetry frame   *)
(*   scripts/send_settings.py   - the control (configuration) frame         *)
(* Python integers are unbounded, so accumulators are plain integers.       *)
(* x & 0xFF on a Python int is x modulo 256 (also for negative x).          *)
(***************************************************************************)
EXTENDS Integers, Sequences, FiniteSets, TLC

(***************************************************************************)
(* Program constants                                                        *)
(***************************************************************************)
SYNC == 170
PACKET_LEN == 15
NUM_MICE_MAX == 6
\* select timeout of the loop, 0.02 s, in milliseconds
TIMEOUT_MS == 20

(***************************************************************************)
(* Bounds of the model                                                      *)
(***************************************************************************)
\* events read from the devices in one run
MaxEvents == 2
\* frames handed to the serial port in one run
MaxFrames == 2
\* devices find_mice returns, out of the NUM_MICE_MAX it may return
MaxFound == 2
\* packets test_random_mice.py writes in one run
MaxPackets == 1

\* values of REL_X / REL_Y events
Deltas == {-100, 100}
\* values of REL_WHEEL events
WheelDeltas == {-200, -1, 100}
\* times (ms) at which select returns because a source is readable
EarlyWakes == {5}

Slots == 0 .. NUM_MICE_MAX - 1

VARIABLES
    pc,      \* position of main(): "start", "select", "read", "exit"
    err,     \* why the process ended: "", "NoMice", "ValueError", "SerialException"
    mice,    \* mice[i] = TRUE when slot i holds a device, FALSE when it holds None
    state,   \* state[i] = [dx, dy, btns, wheel], indexed 0..3 as in the source
    idx,     \* position of "for i, dev in enumerate(mice)": the slot being read
    waited,  \* time (ms) the last select call took
    out,     \* the frames written to the serial port, oldest first
    evs,     \* history: number of events applied since the previous frame was written
    delta,   \* history: delta[i][j] = sum of the REL_X (j=0) / REL_Y (j=1) values
             \*          applied to slot i since the previous frame was written
    level,   \* history: level[i][b] = level of the last transition of button b on slot i
    hist,    \* history: for each make_packet call that led to a write, what it was built from
    argv,    \* send_settings.py: the command line and the config file main() reads
    cpc,     \* send_settings.py: position of main(): "start", "sent", "exit", "usage"
    wire,    \* send_settings.py: the packets written to the serial port
    cin,     \* frame codec: the snapshots make_packet is applied to
    cout,    \* frame codec: what make_packet returned for them
    targs,   \* test_random_mice.py: args.single and args.magnitude
    tpc,     \* test_random_mice.py: position of main(): "start", "loop", "written",
             \*                      "exit", "done"
    tlast,   \* test_random_mice.py: the packet written last
    packets  \* test_random_mice.py: packets

hostVars == <<pc, err, mice, state, idx, waited, out, evs, delta, level, hist>>
cfgVars == <<argv, cpc, wire>>
codecVars == <<cin, cout>>
testVars == <<targs, tpc, tlast, packets>>
vars == <<pc, err, mice, state, idx, waited, out, evs, delta, level, hist,
          argv, cpc, wire, cin, cout, targs, tpc, tlast, packets>>

(***************************************************************************)
(* Integer helpers for Python's bit operators                               *)
(***************************************************************************)
RECURSIVE Pow2(_)
\* 1 << k
Pow2(k) == IF k = 0 THEN 1 ELSE 2 * Pow2(k - 1)

\* bit k of the non-negative integer v
Bit(v, k) == (v \div Pow2(k)) % 2

\* a | b for a, b in 0..7
Or3(a, b) ==
    (IF Bit(a, 0) = 1 \/ Bit(b, 0) = 1 THEN 1 ELSE 0)
  + (IF Bit(a, 1) = 1 \/ Bit(b, 1) = 1 THEN 2 ELSE 0)
  + (IF Bit(a, 2) = 1 \/ Bit(b, 2) = 1 THEN 4 ELSE 0)

\* Byte with the mask 0x7F
Byte_7Bits(v) == v % 128

\* v & 0xFF
Byte(v) == v % 256

\* v & 0x07
Low3(v) == v % 8

(***************************************************************************)
(* host_send_mice.py: events                                                *)
(***************************************************************************)
Ev(t, c, v) == [type |-> t, code |-> c, value |-> v]

\* the events a device can deliver to dev.read()
Events ==
    {Ev("EV_REL", c, v) : c \in {"REL_X", "REL_Y"}, v \in Deltas}
    \cup {Ev("EV_REL", "REL_WHEEL", v) : v \in WheelDeltas}
    \cup {Ev("EV_KEY", c, v) : c \in {"BTN_LEFT", "BTN_RIGHT", "BTN_MIDDLE"}, v \in {0, 1}}
    \cup {Ev("EV_KEY", "BTN_SIDE", 1)}

\* {BTN_LEFT: 0, BTN_RIGHT: 1, BTN_MIDDLE: 2}[event.code]
ButtonBit(code) ==
    IF code = "BTN_LEFT" THEN 0 ELSE IF code = "BTN_RIGHT" THEN 1 ELSE 2

\* btns |= 1 << bit
SetBit(btns, bit) == IF Bit(btns, bit) = 1 THEN btns ELSE btns + Pow2(bit)

\* btns &= ~(1 << bit)
ClearBit(btns, bit) == IF Bit(btns, bit) = 1 THEN btns - Pow2(bit) ELSE btns

\* the body of "for event in dev.read()" applied to the slot's list s
ApplyEvent(s, ev) ==
    IF ev.type = "EV_REL"
    THEN IF ev.code = "REL_X" THEN [s EXCEPT ![0] = @ + ev.value]
         ELSE IF ev.code = "REL_Y" THEN [s EXCEPT ![1] = @ + ev.value]
         ELSE IF ev.code = "REL_WHEEL" THEN [s EXCEPT ![3] = @ + ev.value]
         ELSE s
    ELSE IF ev.type = "EV_KEY"
    THEN IF ev.code \in {"BTN_LEFT", "BTN_RIGHT", "BTN_MIDDLE"}
         THEN IF ev.value # 0
              THEN [s EXCEPT ![2] = SetBit(@, ButtonBit(ev.code))]
              ELSE [s EXCEPT ![2] = ClearBit(@, ButtonBit(ev.code))]
         ELSE s
    ELSE s

(***************************************************************************)
(* host_send_mice.py: the tick (clamp, make_packet, reset)                  *)
(***************************************************************************)
\* the clamp of one accumulator to the signed byte range
Clamp8(v) == IF v > 127 THEN 127 ELSE IF v < -128 THEN -128 ELSE v

\* ClampAxes without the "elif state[i][j] < -128" branch
ClampAxes_NoLower(st) ==
    [i \in Slots |-> [st[i] EXCEPT ![0] = IF @ > 127 THEN 127 ELSE @,
                                   ![1] = IF @ > 127 THEN 127 ELSE @]]

\* the clamp loop over state[i][0] and state[i][1] that precedes make_packet
ClampAxes(st) ==
    [i \in Slots |-> [st[i] EXCEPT ![0] = Clamp8(@), ![1] = Clamp8(@)]]

RECURSIVE ButtonsUpTo(_, _)
\* buf[13] after the slots 0..n-1 were or-ed in
ButtonsUpTo(st, n) ==
    IF n = 0 THEN 0 ELSE Or3(ButtonsUpTo(st, n - 1), Low3(st[n - 1][2]))

\* ButtonByte with "buf[13] = ..." in place of "buf[13] |= ...": the last slot wins
ButtonByte_Assign(st) == Low3(st[NUM_MICE_MAX - 1][2])

\* buf[13]
ButtonByte(st) == ButtonsUpTo(st, NUM_MICE_MAX)

RECURSIVE WheelUpTo(_, _)
\* buf[14] after the slots 0..n-1 were added
WheelUpTo(st, n) ==
    IF n = 0 THEN 0 ELSE Byte(WheelUpTo(st, n - 1) + Clamp8(st[n - 1][3]))

\* buf[14] after the wheel loop, before "if buf[14] >= 128"
WheelByte(st) == WheelUpTo(st, NUM_MICE_MAX)

\* make_packet(): buf is a bytearray, so "buf[14] -= 256" stores a negative
\* number in it and raises ValueError; raised tells that outcome, and buf is
\* then the buffer as it was when the exception left the function.
make_packet(st) ==
    [raised |-> WheelByte(st) >= 128,
     buf |-> [k \in 0 .. PACKET_LEN - 1 |->
                IF k = 0 THEN SYNC
                ELSE IF k <= 2 * NUM_MICE_MAX
                THEN IF k % 2 = 1 THEN Byte(st[(k - 1) \div 2][0])
                     ELSE Byte(st[(k - 2) \div 2][1])
                ELSE IF k = 13 THEN ButtonByte(st)
                ELSE WheelByte(st)]]

\* ResetState that also clears the buttons
ResetState_ClearsButtons(st) == [i \in Slots |-> [j \in 0 .. 3 |-> 0]]

\* ResetState that leaves dy and the wheel as they are
ResetState_DxOnly(st) == [i \in Slots |-> [st[i] EXCEPT ![0] = 0]]

\* ResetState with the reset loop left out
ResetState_Skipped(st) == st

\* the loop after ser.write: dx, dy and wheel back to 0, buttons kept
ResetState(st) ==
    [i \in Slots |-> [st[i] EXCEPT ![0] = 0, ![1] = 0, ![3] = 0]]

\* mice after "while len(mice) < NUM_MICE_MAX: mice.append(None)", for
\* find_mice() having returned found devices
PadMice(found) == [i \in Slots |-> i < found]

\* DevIsNone without the test: every slot is read
DevIsNone_Never(m, i) == FALSE

\* "if dev is None: continue"
DevIsNone(m, i) == ~m[i]

\* Active without the "if m is not None" filter
Active_All(m) == Slots

\* active = [m for m in mice if m is not None]
Active(m) == {i \in Slots : m[i]}

ZeroState == [i \in Slots |-> [j \in 0 .. 3 |-> 0]]
ZeroDelta == [i \in Slots |-> [j \in 0 .. 1 |-> 0]]
ZeroLevel == [i \in Slots |-> [b \in 0 .. 2 |-> FALSE]]

RECURSIVE EventsIn(_, _)
\* events applied before the first n written frames were built
EventsIn(h, n) == IF n = 0 THEN 0 ELSE EventsIn(h, n - 1) + h[n].evs

\* events read so far in the run
TotalEvents == EventsIn(hist, Len(hist)) + evs

\* send_settings.py is not running while the host loop is the program modelled
NoArgs == <<>>

(***************************************************************************)
(* host_send_mice.py: main()                                                *)
(***************************************************************************)
Init ==
    /\ pc = "start"
    /\ err = ""
    /\ \E found \in 0 .. MaxFound : mice = PadMice(found)
    /\ state = ZeroState
    /\ idx = 0
    /\ waited = 0
    /\ out = <<>>
    /\ evs = 0
    /\ delta = ZeroDelta
    /\ level = ZeroLevel
    /\ hist = <<>>
    /\ argv = NoArgs
    /\ cpc = "idle"
    /\ wire = <<>>
    /\ cin = <<>>
    /\ cout = <<>>
    /\ targs = NoArgs
    /\ tpc = "idle"
    /\ tlast = <<>>
    /\ packets = 0

\* from the open of the serial port to the test of "if not active"
Start ==
    /\ pc = "start"
    /\ IF Active(mice) = {}
       THEN pc' = "exit" /\ err' = "NoMice"
       ELSE pc' = "select" /\ err' = err
    /\ state' = ResetState(state)
    /\ UNCHANGED <<mice, idx, waited, out, evs, delta, level, hist>>
    /\ UNCHANGED <<cfgVars, codecVars, testVars>>

\* select.select(active + [ser], [], [], 0.02) returns after the timeout with
\* nothing readable
SelectTimeout ==
    /\ pc = "select"
    /\ Len(out) < MaxFrames
    /\ pc' = "read"
    /\ idx' = 0
    /\ waited' = TIMEOUT_MS
    /\ UNCHANGED <<err, mice, state, out, evs, delta, level, hist>>
    /\ UNCHANGED <<cfgVars, codecVars, testVars>>

\* select returns before the timeout because a device or the serial port is
\* readable; which devices are in r is decided when the loop reaches them
SelectReady ==
    /\ pc = "select"
    /\ Len(out) < MaxFrames
    /\ pc' = "read"
    /\ idx' = 0
    /\ \E w \in EarlyWakes : waited' = w
    /\ UNCHANGED <<err, mice, state, out, evs, delta, level, hist>>
    /\ UNCHANGED <<cfgVars, codecVars, testVars>>

\* the for loop reaches slot i, whose device is in r, and takes one event of
\* dev.read(); the slots between idx and i are None or not in r
ReadEvent ==
    /\ pc = "read"
    /\ waited < TIMEOUT_MS
    /\ TotalEvents < MaxEvents
    /\ \E i \in idx .. NUM_MICE_MAX - 1 :
          /\ ~DevIsNone(mice, i)
          /\ idx' = i
          /\ \E ev \in Events :
                /\ state' = [state EXCEPT ![i] = ApplyEvent(@, ev)]
                /\ delta' = IF ev.type = "EV_REL" /\ ev.code = "REL_X"
                            THEN [delta EXCEPT ![i][0] = @ + ev.value]
                            ELSE IF ev.type = "EV_REL" /\ ev.code = "REL_Y"
                            THEN [delta EXCEPT ![i][1] = @ + ev.value]
                            ELSE delta
                /\ level' = IF ev.type = "EV_KEY"
                               /\ ev.code \in {"BTN_LEFT", "BTN_RIGHT", "BTN_MIDDLE"}
                            THEN [level EXCEPT ![i][ButtonBit(ev.code)] = (ev.value # 0)]
                            ELSE level
    /\ evs' = evs + 1
    /\ UNCHANGED <<pc, err, mice, waited, out, hist>>
    /\ UNCHANGED <<cfgVars, codecVars, testVars>>

\* what the frame about to be written was built from
Built ==
    [delta |-> delta,
     btns |-> [i \in Slots |-> state[i][2]],
     wheel |-> [i \in Slots |-> state[i][3]],
     level |-> level,
     evs |-> evs,
     waited |-> waited]

\* the rest of the loop body: clamp, make_packet, ser.write, reset
Tick ==
    /\ pc = "read"
    /\ LET clamped == ClampAxes(state)
           pkt == make_packet(clamped)
       IN  /\ ~pkt.raised
           /\ out' = Append(out, pkt.buf)
           /\ hist' = Append(hist, Built)
           /\ state' = ResetState(clamped)
    /\ pc' = "select"
    /\ evs' = 0
    /\ delta' = ZeroDelta
    /\ UNCHANGED <<err, mice, idx, waited, level>>
    /\ UNCHANGED <<cfgVars, codecVars, testVars>>

\* the loop body when make_packet raises: main() is left by the exception
TickRaises ==
    /\ pc = "read"
    /\ LET clamped == ClampAxes(state)
           pkt == make_packet(clamped)
       IN  /\ pkt.raised
           /\ state' = clamped
    /\ pc' = "exit"
    /\ err' = "ValueError"
    /\ UNCHANGED <<mice, idx, waited, out, evs, delta, level, hist>>
    /\ UNCHANGED <<cfgVars, codecVars, testVars>>

\* the loop body when ser.write raises: main() is left by the exception
TickWriteFails ==
    /\ pc = "read"
    /\ LET clamped == ClampAxes(state)
           pkt == make_packet(clamped)
       IN  /\ ~pkt.raised
           /\ state' = clamped
    /\ pc' = "exit"
    /\ err' = "SerialException"
    /\ UNCHANGED <<mice, idx, waited, out, evs, delta, level, hist>>
    /\ UNCHANGED <<cfgVars, codecVars, testVars>>

Next ==
    \/ Start
    \/ SelectTimeout
    \/ SelectReady
    \/ ReadEvent
    \/ Tick
    \/ TickRaises
    \/ TickWriteFails

Spec == Init /\ [][Next]_vars

(***************************************************************************)
(* send_settings.py                                                         *)
(***************************************************************************)
\* UART_CONFIG_SYNC1 set to the sync byte of the telemetry frame
UART_CONFIG_SYNC1_AsTelemetry == SYNC

UART_CONFIG_SYNC1 == 85
UART_CONFIG_SYNC2 == 207
UART_CONFIG_CMD == 1

LOGIC_MODES ==
    ("sum" :> 0) @@ ("average" :> 1) @@ ("max" :> 2) @@ ("min" :> 3) @@ ("and" :> 4)
    @@ ("or" :> 5) @@ ("xor" :> 6) @@ ("nand" :> 7) @@ ("nor" :> 8) @@ ("xnor" :> 9)
INPUT_MODES == ("uart" :> 0) @@ ("quadrature" :> 1) @@ ("both" :> 2)
OUTPUT_MODES == ("combined" :> 0) @@ ("separate" :> 1)

\* A setting of a run: src tells where it comes from ("cli": the command
\* line, "file": config.yaml, "none": neither), val its value there.
\* amplify is a float in the source; here it is the integer number of
\* thousandths (2500 for 2.5).
Setting(src, val) == [src |-> src, val |-> val]

\* str.lower() on one character: an ASCII capital becomes its small letter,
\* every other character of the names of the model stays as it is
LowerChar(c) ==
    LET small == ("A" :> "a") @@ ("B" :> "b") @@ ("C" :> "c") @@ ("D" :> "d")
                 @@ ("E" :> "e") @@ ("F" :> "f") @@ ("G" :> "g") @@ ("H" :> "h")
                 @@ ("I" :> "i") @@ ("J" :> "j") @@ ("K" :> "k") @@ ("L" :> "l")
                 @@ ("M" :> "m") @@ ("N" :> "n") @@ ("O" :> "o") @@ ("P" :> "p")
                 @@ ("Q" :> "q") @@ ("R" :> "r") @@ ("S" :> "s") @@ ("T" :> "t")
                 @@ ("U" :> "u") @@ ("V" :> "v") @@ ("W" :> "w") @@ ("X" :> "x")
                 @@ ("Y" :> "y") @@ ("Z" :> "z")
    IN  IF c \in DOMAIN small THEN small[c] ELSE c

RECURSIVE Lower(_)
\* str(...).lower() on a mode name read from config.yaml, character by character
Lower(name) ==
    IF name = "" THEN "" ELSE LowerChar(Head(name)) \o Lower(Tail(name))

\* d.get(name, 0)
Get(d, name) == IF name \in DOMAIN d THEN d[name] ELSE 0

RECURSIVE PowMod2(_, _)
\* 2^n modulo q
PowMod2(n, q) == IF n = 0 THEN 1 % q ELSE (2 * PowMod2(n - 1, q)) % q

RECURSIVE ExpUp(_, _)
\* the largest L >= l with 2^L <= m / 1000, for m >= 1000 * 2^l
ExpUp(m, l) == IF 1000 * Pow2(l + 1) <= m THEN ExpUp(m, l + 1) ELSE l

RECURSIVE ExpDown(_, _)
\* the smallest j >= l with m * 2^j >= 1000, for m > 0
ExpDown(m, l) == IF m * Pow2(l) < 1000 THEN ExpDown(m, l + 1) ELSE l

\* the binary exponent of the float m / 1000 (m > 0): 2^L <= m / 1000 < 2^(L+1)
FloatExp(m) == IF m >= 1000 THEN ExpUp(m, 0) ELSE -ExpDown(m, 0)

\* "amplify * 100" on binary64 floats, for amplify the float nearest to
\* m / 1000 (m > 0): the sign of the result is the side of m / 10 the float
\* product lies on, 0 when the product is m / 10 exactly.  With e = 52 - L
\* the float amplify is M / 2^e for the 53-bit integer M nearest to
\* m * 2^e / 1000, so 1000 * M = m * 2^e + d1; the exact product 100 * M has
\* s = 6 or 7 bits too many (7 when the significand of amplify is at least
\* 1.28) and is rounded, ties to even, to a multiple of 2^s: the product is
\* (100 * M + d2) / 2^e = m / 10 + (d1 + 10 * d2) / (10 * 2^e).
ProductError(m) ==
    LET L == FloatExp(m)
        e == 52 - L
        s == IF (IF L >= 0 THEN m >= 1280 * Pow2(L) ELSE m * Pow2(-L) >= 1280)
             THEN 7 ELSE 6
        r1 == ((m % 1000) * PowMod2(e, 1000)) % 1000
        d1 == IF r1 < 500 THEN -r1 ELSE 1000 - r1
        Mlow == ((2048 * (((m % 125) * PowMod2(e - 11, 125)) % 125) + d1) % 256000)
                \div 1000
        r == (100 * Mlow) % Pow2(s + 1)
        low == r % Pow2(s)
        half == Pow2(s - 1)
        d2 == IF low < half THEN -low
              ELSE IF low > half THEN Pow2(s) - low
              ELSE IF r \div Pow2(s) = 0 THEN -half ELSE half
    IN  d1 + 10 * d2

\* int(round(amplify * 100)) for amplify >= 0: away from a half the float
\* product rounds as m / 10 does; at a half the side the float product lies
\* on decides, and round() rounds an exact half to even
Round100Abs(m) ==
    LET q == m \div 10
        t == m % 10
    IN  IF t < 5 THEN q
        ELSE IF t > 5 THEN q + 1
        ELSE IF ProductError(m) < 0 THEN q
        ELSE IF ProductError(m) > 0 THEN q + 1
        ELSE IF q % 2 = 0 THEN q ELSE q + 1

\* int(round(amplify * 100)); negation is exact on floats and round() is
\* symmetric about 0
Round100(amplify) ==
    IF amplify < 0 THEN -Round100Abs(-amplify) ELSE Round100Abs(amplify)

\* build_packet(num_mice, logic_mode, input_mode, output_mode, amplify, quad_scale, save)
build_packet(num_mice, logic_mode, input_mode, output_mode, amplify, quad_scale, save) ==
    LET a == Round100(amplify)
        amplify_x100 == IF a > 1000 THEN 1000 ELSE IF a < 10 THEN 10 ELSE a
        q_lo == quad_scale % 256
        q_hi == (quad_scale \div 256) % 256
    IN  [k \in 0 .. 10 |->
            IF k = 0 THEN UART_CONFIG_SYNC1
            ELSE IF k = 1 THEN UART_CONFIG_SYNC2
            ELSE IF k = 2 THEN UART_CONFIG_CMD
            ELSE IF k = 3 THEN Byte(num_mice)
            ELSE IF k = 4 THEN Byte(logic_mode)
            ELSE IF k = 5 THEN Byte(input_mode)
            ELSE IF k = 6 THEN Byte(output_mode)
            ELSE IF k = 7 THEN Byte(amplify_x100)
            ELSE IF k = 8 THEN q_lo
            ELSE IF k = 9 THEN q_hi
            ELSE IF save THEN 1 ELSE 0]

\* the mode names argparse accepts (choices=list(...))
CliNamesOk(a) ==
    /\ a.logic_mode.src = "cli" => a.logic_mode.val \in DOMAIN LOGIC_MODES
    /\ a.input_mode.src = "cli" => a.input_mode.val \in DOMAIN INPUT_MODES
    /\ a.output_mode.src = "cli" => a.output_mode.val \in DOMAIN OUTPUT_MODES

\* the name a mode setting resolves to, def being the default of cfg.get
ModeName(setting, def) ==
    IF setting.src = "cli" THEN setting.val
    ELSE IF setting.src = "file" THEN Lower(setting.val)
    ELSE def

\* main(): the values of the settings after the command line and the config
\* file were read and quad_scale was raised to 1
Resolved(a) ==
    LET qs == IF a.quad_scale.src = "none" THEN 2 ELSE a.quad_scale.val
    IN  [num_mice |-> IF a.num_mice.src = "none" THEN 6 ELSE a.num_mice.val,
         logic_mode |-> Get(LOGIC_MODES, ModeName(a.logic_mode, "sum")),
         input_mode |-> Get(INPUT_MODES, ModeName(a.input_mode, "uart")),
         output_mode |-> Get(OUTPUT_MODES, ModeName(a.output_mode, "combined")),
         amplify |-> IF a.amplify.src = "none" THEN 1000 ELSE a.amplify.val,
         quad_scale |-> IF qs < 1 THEN 1 ELSE qs,
         save |-> ~a.no_save]

\* NumMiceOk without the lower bound of the test
NumMiceOk_UpperOnly(n) == ~(n > 6)

\* the negation of "if num_mice < 2 or num_mice > 6"
NumMiceOk(n) == ~(n < 2 \/ n > 6)

\* the settings the runs of the model are given
NumMiceIn ==
    {Setting("cli", v) : v \in {1, 2, 6, 7}} \cup {Setting("file", v) : v \in {0, 4}}
    \cup {Setting("none", 0)}
LogicIn ==
    {Setting("cli", v) : v \in DOMAIN LOGIC_MODES \cup {"bogus"}}
    \cup {Setting("file", v) : v \in {"XOR", "Max", "bogus"}} \cup {Setting("none", "")}
InputIn ==
    {Setting("cli", "both")} \cup {Setting("file", v) : v \in {"Quadrature", "BOTH", "bogus"}}
    \cup {Setting("none", "")}
OutputIn ==
    {Setting("cli", "separate")} \cup {Setting("file", "SEPARATE")}
    \cup {Setting("none", "")}
AmplifyIn ==
    {Setting("cli", v) : v \in {10, 545, 1015, 1700, 1705, 2500, 3000, 10000, 12000}}
    \cup {Setting("file", 500)} \cup {Setting("none", 0)}
QuadIn ==
    {Setting("cli", v) : v \in {0, 4, 170, 300, 65536, 70000}} \cup {Setting("file", -3)}
    \cup {Setting("none", 0)}

InitCfg ==
    /\ argv \in [num_mice : NumMiceIn, logic_mode : LogicIn, input_mode : InputIn,
                 output_mode : OutputIn, amplify : AmplifyIn, quad_scale : QuadIn,
                 no_save : BOOLEAN]
    /\ cpc = "start"
    /\ wire = <<>>
    /\ pc = "idle"
    /\ err = ""
    /\ mice = PadMice(0)
    /\ state = ZeroState
    /\ idx = 0
    /\ waited = 0
    /\ out = <<>>
    /\ evs = 0
    /\ delta = ZeroDelta
    /\ level = ZeroLevel
    /\ hist = <<>>
    /\ cin = <<>>
    /\ cout = <<>>
    /\ targs = NoArgs
    /\ tpc = "idle"
    /\ tlast = <<>>
    /\ packets = 0

\* ap.parse_args() rejects a mode name that is not among the choices
Usage ==
    /\ cpc = "start"
    /\ ~CliNamesOk(argv)
    /\ cpc' = "usage"
    /\ UNCHANGED <<argv, wire>>
    /\ UNCHANGED <<hostVars, codecVars, testVars>>

\* main() ends at raise SystemExit("num_mice must be 2-6")
Reject ==
    /\ cpc = "start"
    /\ CliNamesOk(argv)
    /\ ~NumMiceOk(Resolved(argv).num_mice)
    /\ cpc' = "exit"
    /\ UNCHANGED <<argv, wire>>
    /\ UNCHANGED <<hostVars, codecVars, testVars>>

\* main() builds the packet and writes it to the serial port
Send ==
    /\ cpc = "start"
    /\ CliNamesOk(argv)
    /\ NumMiceOk(Resolved(argv).num_mice)
    /\ LET r == Resolved(argv)
       IN  wire' = Append(wire, build_packet(r.num_mice, r.logic_mode, r.input_mode,
                                             r.output_mode, r.amplify, r.quad_scale,
                                             r.save))
    /\ cpc' = "sent"
    /\ UNCHANGED argv
    /\ UNCHANGED <<hostVars, codecVars, testVars>>

NextCfg ==
    \/ Usage
    \/ Reject
    \/ Send

SpecCfg == InitCfg /\ [][NextCfg]_vars


(***************************************************************************)
(* Properties of host_send_mice.py                                          *)
(***************************************************************************)
\* the two's-complement 8-bit encoding of v in -128..127
Enc8(v) == IF v < 0 THEN v + 256 ELSE v

\* the byte b read as a signed 8-bit integer
Dec8(b) == IF b >= 128 THEN b - 256 ELSE b

Min(a, b) == IF a < b THEN a ELSE b
Max(a, b) == IF a > b THEN a ELSE b

\* clamp(v, lo, hi)
Saturate(v, lo, hi) == Max(lo, Min(hi, v))

Frames == 1 .. Len(out)

\* C1: the dx and dy bytes of every written frame (offsets 1+2i and 2+2i) are
\* the two's-complement encoding of clamp(sum of the REL_X / REL_Y values
\* applied to slot i since the previous frame was written, -128, 127).
C1_AxisBytesAreClampedSums ==
    \A k \in Frames : \A i \in Slots :
        /\ out[k][1 + 2 * i] = Enc8(Saturate(hist[k].delta[i][0], -128, 127))
        /\ out[k][2 + 2 * i] = Enc8(Saturate(hist[k].delta[i][1], -128, 127))

\* a frame built from two events whose sum on one axis left the range downwards
C1_Witness ==
    \E k \in Frames : \E i \in Slots :
        /\ hist[k].evs = 2
        /\ hist[k].delta[i][0] < -128
        /\ out[k][1 + 2 * i] = 128

\* C2: make_packet is total: whenever the loop is about to call it (dx, dy
\* clamped, buttons 3-bit masks, wheel any integer) it returns, without
\* raising, a frame of exactly 15 bytes whose byte 0 is 0xAA.
C2_MakePacketTotal ==
    pc = "read" =>
        LET pkt == make_packet(ClampAxes(state))
        IN  /\ ~pkt.raised
            /\ DOMAIN pkt.buf = 0 .. 14
            /\ pkt.buf[0] = 170

RECURSIVE WheelSum(_, _)
\* the sum of the wheel accumulators of slots 0..n-1, each clamped to -128..127
WheelSum(w, n) ==
    IF n = 0 THEN 0 ELSE WheelSum(w, n - 1) + Saturate(w[n - 1], -128, 127)

\* the sum s taken modulo 256, a result of 128 or more read as that result minus 256
SignedWrap(s) == Dec8(s % 256)

\* C3: every tick writes a frame whose byte 14 is the signed 8-bit wraparound
\* sum of the six clamped wheel accumulators, for every combination of wheel
\* values, those whose sum is negative included.
C3_WheelFieldIsSignedWrapSum ==
    /\ err # "ValueError"
    /\ \A k \in Frames :
          Dec8(out[k][14]) = SignedWrap(WheelSum(hist[k].wheel, NUM_MICE_MAX))

\* byte 14 of the frames that are written: the part of C3 the code keeps
WheelFieldOfWrittenFrames ==
    \A k \in Frames :
        Dec8(out[k][14]) = SignedWrap(WheelSum(hist[k].wheel, NUM_MICE_MAX))

\* a written frame whose clamped wheel values wrapped around to 0
WheelWrapWitness ==
    \E k \in Frames :
        /\ WheelSum(hist[k].wheel, NUM_MICE_MAX) = -256
        /\ out[k][14] = 0

\* C4: byte 13 of every written frame is the bitwise OR over the 6 slots of
\* (buttons & 0b111): its bit b is set exactly when some slot has bit b set,
\* and no bit above bit 2 is set.
C4_ButtonByteIsOr ==
    \A k \in Frames :
        /\ out[k][13] \in 0 .. 7
        /\ \A b \in 0 .. 2 :
              Bit(out[k][13], b) = 1
                  <=> \E i \in Slots : Bit(hist[k].btns[i] % 8, b) = 1

\* a frame built while slot 0 held one button and slot 1 another
C4_Witness ==
    \E k \in Frames :
        /\ hist[k].btns[0] # 0
        /\ hist[k].btns[1] # 0
        /\ hist[k].btns[0] # hist[k].btns[1]
        /\ out[k][13] \notin {hist[k].btns[0], hist[k].btns[1]}

\* C5: button state is level state that survives emission: bit b of byte 13 of
\* every written frame is set exactly when, for some slot, the last
\* press/release transition of button b applied before the frame was built
\* was a press, whichever frame period that transition fell in.
C5_ButtonLevelPersists ==
    \A k \in Frames : \A b \in 0 .. 2 :
        Bit(out[k][13], b) = 1 <=> \E i \in Slots : hist[k].level[i][b]

\* a button pressed before the first frame is still set in a second frame
\* that was built without any event in between
C5_Witness ==
    /\ Len(out) = 2
    /\ hist[1].evs > 0
    /\ hist[2].evs = 0
    /\ out[1][13] # 0
    /\ out[2][13] = out[1][13]

\* C6: a frame built with no event applied since the previous frame was
\* written has dx, dy (offsets 1..12) and wheel (offset 14) zero and the
\* button byte of the previous frame.
C6_IdleFrame ==
    \A k \in Frames :
        (k > 1 /\ hist[k].evs = 0) =>
            /\ \A o \in 1 .. 12 : out[k][o] = 0
            /\ out[k][14] = 0
            /\ out[k][13] = out[k - 1][13]

\* a frame that carried motion and a wheel step, followed by an idle frame
C6_Witness ==
    /\ Len(out) = 2
    /\ hist[2].evs = 0
    /\ out[1][2] # 0
    /\ out[1][14] # 0

\* C7: frames are written at a fixed cadence: every frame is written at a
\* tick deadline, that is TIMEOUT_MS after the loop started waiting for it,
\* whatever arrives from the sources or the serial port in between.
C7_FixedCadence ==
    \A k \in Frames : hist[k].waited = TIMEOUT_MS

\* C8: every written frame carries 6 slots, and a slot that holds no device
\* has dx and dy zero in it and adds nothing to its button and wheel bytes.
C8_UnboundSlotsZero ==
    \A k \in Frames :
        /\ DOMAIN out[k] = 0 .. 14
        /\ \A i \in Slots :
              ~mice[i] =>
                  /\ out[k][1 + 2 * i] = 0
                  /\ out[k][2 + 2 * i] = 0
                  /\ hist[k].btns[i] = 0
                  /\ hist[k].wheel[i] = 0

\* a frame with motion and a button of slot 0 while slot 1 holds no device
C8_Witness ==
    \E k \in Frames :
        /\ mice[0]
        /\ ~mice[1]
        /\ out[k][1] # 0
        /\ out[k][13] # 0

(***************************************************************************)
(* Properties of send_settings.py                                           *)
(***************************************************************************)
\* the wire codes of the mode names, as the layout of the control frame lists them
CodeOf(name) ==
    CASE name = "sum" -> 0 [] name = "average" -> 1 [] name = "max" -> 2
      [] name = "min" -> 3 [] name = "and" -> 4 [] name = "or" -> 5
      [] name = "xor" -> 6 [] name = "nand" -> 7 [] name = "nor" -> 8
      [] name = "xnor" -> 9
      [] name = "uart" -> 0 [] name = "quadrature" -> 1 [] name = "both" -> 2
      [] name = "combined" -> 0 [] name = "separate" -> 1

\* the names the run's modes resolve to
LogicName == ModeName(argv.logic_mode, "sum")
InputName == ModeName(argv.input_mode, "uart")
OutputName == ModeName(argv.output_mode, "combined")

\* every mode of the run is named by a name of the tables
NamesValid ==
    /\ LogicName \in DOMAIN LOGIC_MODES
    /\ InputName \in DOMAIN INPUT_MODES
    /\ OutputName \in DOMAIN OUTPUT_MODES

\* amplify_x100 of the run's record: round(amplify * 100) clamped to [10, 1000]
AmplifyX100 == Saturate(Round100(Resolved(argv).amplify), 10, 1000)

\* the record {6, xor, both, separate, 2.5, 4, persist}
IsExampleRecord ==
    /\ Resolved(argv).num_mice = 6
    /\ LogicName = "xor"
    /\ InputName = "both"
    /\ OutputName = "separate"
    /\ Resolved(argv).amplify = 2500
    /\ Resolved(argv).quad_scale = 4
    /\ Resolved(argv).save

\* the control frame but for byte 7, which is given as b7
ControlFrame(b7) ==
    [k \in 0 .. 10 |->
        IF k = 0 THEN 85
        ELSE IF k = 1 THEN 207
        ELSE IF k = 2 THEN 1
        ELSE IF k = 3 THEN Resolved(argv).num_mice
        ELSE IF k = 4 THEN CodeOf(LogicName)
        ELSE IF k = 5 THEN CodeOf(InputName)
        ELSE IF k = 6 THEN CodeOf(OutputName)
        ELSE IF k = 7 THEN b7
        ELSE IF k = 8 THEN Resolved(argv).quad_scale % 256
        ELSE IF k = 9 THEN (Resolved(argv).quad_scale \div 256) % 256
        ELSE IF Resolved(argv).save THEN 1 ELSE 0]

\* C9: for every validated record the frame sent is the 11 bytes
\* [0x55, 0xCF, 0x01, num_devices, logic code, input code, output code,
\* amplify_x100, quad_scale low, quad_scale high, persist], and the example
\* record encodes to [0x55,0xCF,0x01,0x06,0x06,0x02,0x01,0xFA,0x04,0x00,0x01].
C9_ControlFrameLayout ==
    (cpc = "sent" /\ NamesValid) =>
        /\ wire[1] = ControlFrame(AmplifyX100)
        /\ IsExampleRecord =>
              wire[1] = [k \in 0 .. 10 |-> <<85, 207, 1, 6, 6, 2, 1, 250, 4, 0, 1>>[k + 1]]

\* the layout of C9 as the code keeps it: byte 7 is amplify_x100 modulo 256
LayoutWithTruncatedAmplify ==
    (cpc = "sent" /\ NamesValid) =>
        /\ wire[1] = ControlFrame(AmplifyX100 % 256)
        /\ IsExampleRecord =>
              wire[1] = [k \in 0 .. 10 |-> <<85, 207, 1, 6, 6, 2, 1, 250, 4, 0, 1>>[k + 1]]

\* the example record of C9 was sent
ExampleSent == cpc = "sent" /\ IsExampleRecord

\* C10: the amplify value the control frame carries is
\* max(10, min(1000, a)) for a = round(amplify * 100).
C10_AmplifyOnWireIsClamped ==
    cpc = "sent" =>
        wire[1][7] = Max(10, Min(1000, Round100(Resolved(argv).amplify)))

\* the quad_scale the run supplies (2 when neither source names it)
SuppliedQuadScale == IF argv.quad_scale.src = "none" THEN 2 ELSE argv.quad_scale.val

\* the little-endian 16-bit value at offsets 8 and 9 of the frame f
QuadOnWire(f) == f[8] + 256 * f[9]

\* C11: the quad_scale the control frame carries, read as the little-endian
\* 16-bit value at offsets 8 and 9, is at least 1 and equals the validated
\* quad_scale: the supplied value, or 1 when the supplied value is below 1.
C11_QuadScaleOnWire ==
    cpc = "sent" =>
        /\ QuadOnWire(wire[1]) >= 1
        /\ QuadOnWire(wire[1]) = Max(1, SuppliedQuadScale)

\* the part of C11 the code keeps: the validated quad_scale modulo 65536
QuadScaleOnWireTruncated ==
    cpc = "sent" => QuadOnWire(wire[1]) = Max(1, SuppliedQuadScale) % 65536

\* the num_devices the run supplies (6 when neither source names it)
SuppliedNumMice == IF argv.num_mice.src = "none" THEN 6 ELSE argv.num_mice.val

\* C12: a num_devices outside [2, 6], from the command line or the config
\* file, ends the run with nothing written to the serial port, and byte 3 of
\* every control frame written is in 2..6.
C12_NumDevicesValidated ==
    /\ SuppliedNumMice \notin 2 .. 6 => (wire = <<>> /\ cpc # "sent")
    /\ \A k \in 1 .. Len(wire) : wire[k][3] \in 2 .. 6

\* a run given num_devices 1 on the command line has ended without a frame
C12_Witness ==
    /\ argv.num_mice = Setting("cli", 1)
    /\ cpc = "exit"
    /\ wire = <<>>

\* a run given num_devices 0 by the config file has ended without a frame
C12_FileWitness ==
    /\ argv.num_mice = Setting("file", 0)
    /\ cpc = "exit"
    /\ wire = <<>>

\* C13: an unparsable name of logic_mode, input_mode or output_mode, from the
\* command line or the config file, ends the run before any byte is sent: a
\* control frame is written only when every mode is named by a name of its
\* table.
C13_UnknownModeNameIsFatal ==
    wire # <<>> => NamesValid

(***************************************************************************)
(* Properties of host_send_mice.py: start-up, write failure, conservation   *)
(***************************************************************************)
NoDeviceBound == \A i \in Slots : ~mice[i]

\* C14: when discovery binds no source the process ends with a failure before
\* the loop starts and no frame is ever written; when at least one source is
\* bound the process does not end that way, whatever slots are missing.
C14_NoMiceIsFatal ==
    /\ NoDeviceBound => (out = <<>> /\ pc \in {"start", "exit"} /\ err \in {"", "NoMice"})
    /\ ~NoDeviceBound => err # "NoMice"

\* the process has ended at "No mice found." without a frame
C14_Witness ==
    /\ NoDeviceBound
    /\ pc = "exit"
    /\ err = "NoMice"
    /\ out = <<>>

\* with one device bound and five slots padded the loop has written frames
C14_DegradedWitness ==
    /\ mice[0]
    /\ \A i \in 1 .. 5 : ~mice[i]
    /\ Len(out) = 2

\* C15: when ser.write fails the loop keeps ticking: the process does not end
\* with the failed write.
C15_LoopSurvivesWriteFailure ==
    ~(pc = "exit" /\ err = "SerialException")

RECURSIVE SentSum(_, _)
\* the sum over the first n written frames of the signed byte at offset o
SentSum(n, o) == IF n = 0 THEN 0 ELSE SentSum(n - 1, o) + Dec8(out[n][o])

RECURSIVE AppliedSum(_, _, _)
\* the sum of the deltas of axis j applied to slot i before the n-th written
\* frame was built
AppliedSum(n, i, j) ==
    IF n = 0 THEN 0 ELSE AppliedSum(n - 1, i, j) + hist[n].delta[i][j]

\* C19: for every slot and axis, when no per-frame sum left [-128, 127] the
\* signed bytes of the written frames add up to the deltas applied before
\* the last written frame was built; and after a frame whose sum left the
\* range the next frame carries the clamp of its own period's sum only.
C19_DeltasCountedOnce ==
    \A i \in Slots : \A j \in 0 .. 1 :
        /\ (\A k \in Frames : hist[k].delta[i][j] \in -128 .. 127)
              => SentSum(Len(out), 1 + 2 * i + j) = AppliedSum(Len(hist), i, j)
        /\ \A k \in Frames :
              (k > 1 /\ hist[k - 1].delta[i][j] \notin -128 .. 127)
                  => Dec8(out[k][1 + 2 * i + j])
                        = Saturate(hist[k].delta[i][j], -128, 127)

\* two frames that each carried a delta of 100 of slot 0
C19_Witness ==
    /\ Len(out) = 2
    /\ hist[1].delta[0][0] = 100
    /\ hist[2].delta[0][0] = 100
    /\ SentSum(2, 1) = 200

\* a frame whose sum was 200 and was sent as 127, followed by an idle frame
C19_ExcessWitness ==
    /\ Len(out) = 2
    /\ hist[1].delta[0][0] = 200
    /\ out[1][1] = 127
    /\ out[2][1] = 0

(***************************************************************************)
(* Properties of send_settings.py: the control frame and the telemetry sync *)
(***************************************************************************)
\* C18 as stated: no byte of a control frame equals 0xAA.
C18_NoSyncByteInControlFrame ==
    \A k \in 1 .. Len(wire) : \A o \in 0 .. 10 : wire[k][o] # 170

\* the offsets of the amplify and quad_scale bytes
PayloadOffsets == {7, 8, 9}

\* C18 as amended: no byte of a control frame other than the amplify byte
\* (offset 7) and the two quad_scale bytes (offsets 8, 9) equals 0xAA; in
\* particular the frame does not start with the telemetry sync byte.
C18_HeaderAndModesAvoidSync ==
    \A k \in 1 .. Len(wire) : \A o \in (0 .. 10) \ PayloadOffsets : wire[k][o] # 170

\* a control frame was sent whose amplify byte is 0xAA (amplify 1.70)
C18_Witness ==
    /\ cpc = "sent"
    /\ Resolved(argv).amplify = 1700
    /\ wire[1][7] = 170
    /\ wire[1][0] = 85

(***************************************************************************)
(* The frame codec of host_send_mice.py as a function of the snapshot       *)
(***************************************************************************)
\* the list [dx, dy, btns, wheel] of one slot
SlotOf(dx, dy, btns, wheel) == [j \in 0 .. 3 |-> <<dx, dy, btns, wheel>>[j + 1]]

\* values of slots 0 and 1 in the snapshots encoded
SlotValues ==
    {SlotOf(0, 0, 0, 0), SlotOf(-128, 127, 0, 0), SlotOf(127, -1, 1, 0),
     SlotOf(0, 0, 1, 0), SlotOf(0, 0, 6, 100), SlotOf(0, 0, 0, 100),
     SlotOf(0, 0, 0, -128), SlotOf(5, 0, 0, -1)}

\* values of slot 5 in the snapshots encoded
LastSlotValues == {SlotOf(0, 0, 0, 0), SlotOf(-1, -128, 4, 0)}

\* the snapshots encoded: dx, dy, wheel in -128..127, buttons 3-bit masks
Snapshots ==
    {[i \in Slots |-> IF i = 0 THEN s0 ELSE IF i = 1 THEN s1
                      ELSE IF i = 5 THEN s5 ELSE SlotOf(0, 0, 0, 0)] :
        s0 \in SlotValues, s1 \in SlotValues, s5 \in LastSlotValues}

InitCodec ==
    /\ cin \in Snapshots \X Snapshots
    /\ cout = <<>>
    /\ pc = "idle"
    /\ err = ""
    /\ mice = PadMice(0)
    /\ state = ZeroState
    /\ idx = 0
    /\ waited = 0
    /\ out = <<>>
    /\ evs = 0
    /\ delta = ZeroDelta
    /\ level = ZeroLevel
    /\ hist = <<>>
    /\ argv = NoArgs
    /\ cpc = "idle"
    /\ wire = <<>>
    /\ targs = NoArgs
    /\ tpc = "idle"
    /\ tlast = <<>>
    /\ packets = 0

\* make_packet() is called with state being each of the two snapshots
Encode ==
    /\ cout = <<>>
    /\ cout' = <<make_packet(cin[1]), make_packet(cin[2])>>
    /\ UNCHANGED cin
    /\ UNCHANGED <<hostVars, cfgVars, testVars>>

NextCodec == Encode

SpecCodec == InitCodec /\ [][NextCodec]_vars

\* both snapshots were encoded to a frame
BothEncoded == cout # <<>> /\ ~cout[1].raised /\ ~cout[2].raised

\* C16 as stated: two different valid snapshots never encode to the same
\* frame, so that a decoder recovers the snapshot from the frame.
C16_RoundTrip ==
    (BothEncoded /\ cout[1].buf = cout[2].buf) => cin[1] = cin[2]

\* the OR of the button masks of the snapshot s
OrOfButtons(s) ==
    LET bit(b) == IF \E i \in Slots : Bit(s[i][2], b) = 1 THEN Pow2(b) ELSE 0
    IN  bit(0) + bit(1) + bit(2)

\* what a decoder reads from the frame f of the snapshot s: every slot's dx
\* and dy, the OR of the button masks and the signed wraparound sum of the wheels
DecodesTo(f, s) ==
    /\ \A i \in Slots :
          /\ Dec8(f[1 + 2 * i]) = s[i][0]
          /\ Dec8(f[2 + 2 * i]) = s[i][1]
    /\ f[13] = OrOfButtons(s)
    /\ Dec8(f[14]) = SignedWrap(WheelSum([i \in Slots |-> s[i][3]], NUM_MICE_MAX))

\* C16 as amended: from every frame make_packet returns for a valid snapshot
\* a decoder recovers every slot's dx and dy exactly, and of the buttons and
\* wheels the OR of the masks and the wraparound sum only; two snapshots
\* with the same frame agree on every dx and dy.
C16_AxesRoundTrip ==
    cout # <<>> =>
        /\ \A n \in 1 .. 2 : ~cout[n].raised => DecodesTo(cout[n].buf, cin[n])
        /\ (BothEncoded /\ cout[1].buf = cout[2].buf) =>
              \A i \in Slots : \A j \in 0 .. 1 : cin[1][i][j] = cin[2][i][j]

\* two snapshots with the same motion and the same button held on different
\* slots were encoded to the same frame
C16_Witness ==
    /\ BothEncoded
    /\ cin[1] # cin[2]
    /\ cout[1].buf = cout[2].buf
    /\ cin[1][5][1] = -128
    /\ cin[1][0][2] = 1
    /\ cin[2][1][2] = 1

(***************************************************************************)
(* test_random_mice.py (its SYNC, PACKET_LEN and NUM_MICE_MAX have the      *)
(* values of those of host_send_mice.py)                                    *)
(***************************************************************************)
\* clamp_s8(x)
clamp_s8(x) == Max(-128, Min(127, x))

\* make_packet(deltas) of test_random_mice.py
test_make_packet(deltas) ==
    [k \in 0 .. PACKET_LEN - 1 |->
        IF k = 0 THEN SYNC
        ELSE IF k <= 2 * NUM_MICE_MAX
        THEN IF k % 2 = 1 THEN Byte(clamp_s8(deltas[(k - 1) \div 2][0]))
             ELSE Byte(clamp_s8(deltas[(k - 2) \div 2][1]))
        ELSE 0]

\* Mag without the upper bound
Mag_NoUpper(magnitude) == Max(1, magnitude)

\* mag = max(1, min(127, args.magnitude))
Mag(magnitude) == Max(1, Min(127, magnitude))

\* "args.single is not None and (args.single < 0 or args.single >= NUM_MICE_MAX)"
SingleBad(single) ==
    single # <<>> /\ (single[1] < 0 \/ single[1] >= NUM_MICE_MAX)

\* the pairs (random.randint(-mag, mag), random.randint(-mag, mag)) the model draws
Draws(mag) == {[j \in 0 .. 1 |-> <<-mag, mag>>[j + 1]], [j \in 0 .. 1 |-> <<mag, 0>>[j + 1]]}

\* deltas of one loop iteration, draw[i] being the pair drawn for slot i
MakeDeltas(single, draw) ==
    IF single # <<>>
    THEN [i \in Slots |-> IF i = single[1] THEN draw[i] ELSE [j \in 0 .. 1 |-> 0]]
    ELSE draw

InitTest ==
    /\ targs \in [single : {<<>>} \cup {<<n>> : n \in {-1, 0, 3, 5, 6}},
                  magnitude : {-3, 1, 4, 127, 200}]
    /\ tpc = "start"
    /\ tlast = <<>>
    /\ packets = 0
    /\ cin = <<>>
    /\ cout = <<>>
    /\ pc = "idle"
    /\ err = ""
    /\ mice = PadMice(0)
    /\ state = ZeroState
    /\ idx = 0
    /\ waited = 0
    /\ out = <<>>
    /\ evs = 0
    /\ delta = ZeroDelta
    /\ level = ZeroLevel
    /\ hist = <<>>
    /\ argv = NoArgs
    /\ cpc = "idle"
    /\ wire = <<>>

\* main() from parse_args to the loop: --single out of range ends the run
TestStart ==
    /\ tpc = "start"
    /\ tpc' = IF SingleBad(targs.single) THEN "exit" ELSE "loop"
    /\ UNCHANGED <<targs, tlast, packets>>
    /\ UNCHANGED <<hostVars, cfgVars, codecVars>>

\* the loop body up to ser.write(make_packet(deltas)): deltas are drawn and
\* the packet is written; packets is not yet counted up
TestSend ==
    /\ tpc = "loop"
    /\ packets < MaxPackets
    /\ \E draw \in [Slots -> Draws(Mag(targs.magnitude))] :
          tlast' = test_make_packet(MakeDeltas(targs.single, draw))
    /\ tpc' = "written"
    /\ UNCHANGED <<targs, packets>>
    /\ UNCHANGED <<hostVars, cfgVars, codecVars>>

\* "packets += 1", the duration test fails, the sleep: the next iteration
TestCount ==
    /\ tpc = "written"
    /\ packets' = packets + 1
    /\ tpc' = "loop"
    /\ UNCHANGED <<targs, tlast>>
    /\ UNCHANGED <<hostVars, cfgVars, codecVars>>

\* "packets += 1", then the duration has passed: break
TestStop ==
    /\ tpc = "written"
    /\ packets' = packets + 1
    /\ tpc' = "done"
    /\ UNCHANGED <<targs, tlast>>
    /\ UNCHANGED <<hostVars, cfgVars, codecVars>>

\* KeyboardInterrupt inside the try: anywhere in the loop, also before the
\* first write and between a write and its "packets += 1"
TestInterrupt ==
    /\ tpc \in {"loop", "written"}
    /\ tpc' = "done"
    /\ UNCHANGED <<targs, tlast, packets>>
    /\ UNCHANGED <<hostVars, cfgVars, codecVars>>

NextTest ==
    \/ TestStart
    \/ TestSend
    \/ TestCount
    \/ TestStop
    \/ TestInterrupt

SpecTest == InitTest /\ [][NextTest]_vars

\* a packet was written in the run, counted in packets or not
Written == DOMAIN tlast # {}

\* C17: every packet test_random_mice.py writes is 15 bytes starting with
\* 0xAA, with button byte 0 and wheel byte 0 and every dx, dy in [-mag, mag]
\* for mag the requested magnitude clamped to [1, 127]; with --single i
\* (0 <= i <= 5) every slot other than i has dx = dy = 0.
C17_TestPackets ==
    Written =>
        /\ DOMAIN tlast = 0 .. 14
        /\ tlast[0] = 170
        /\ tlast[13] = 0
        /\ tlast[14] = 0
        /\ \A o \in 1 .. 12 :
              /\ Dec8(tlast[o]) >= -Saturate(targs.magnitude, 1, 127)
              /\ Dec8(tlast[o]) <= Saturate(targs.magnitude, 1, 127)
        /\ targs.single # <<>> =>
              /\ targs.single[1] \in 0 .. 5
              /\ \A i \in Slots :
                    i # targs.single[1] =>
                        (tlast[1 + 2 * i] = 0 /\ tlast[2 + 2 * i] = 0)

\* with --single 3 --magnitude 200 a packet moved slot 3 by (-127, 127)
C17_Witness ==
    /\ packets > 0
    /\ targs.single = <<3>>
    /\ targs.magnitude = 200
    /\ tlast[7] = 129
    /\ tlast[8] = 127

\* without --single a packet moved every slot; the run was interrupted
\* before the packet was counted
C17_AllSlotsWitness ==
    /\ tpc = "done"
    /\ packets = 0
    /\ Written
    /\ targs.single = <<>>
    /\ \A i \in Slots : tlast[1 + 2 * i] # 0

====
